---- MODULE Spec2Model ----
(***************************************************************************)
(* The crawl loop of eth-data-crawler: cmd/main.go (getAndSaveTxs,         *)
(* getAndSaveLogsTxs) over the Redis wrapper of rdb/rdb.go.                *)
(*                                                                         *)
(* One crawler process runs against one Redis store and one ledger node.   *)
(* The store (redisStr, redisHash) and the ledger (height) outlive the     *)
(* process; the process can be killed at any step and started again with   *)
(* the same configuration.  Block numbers are unsigned machine words; the  *)
(* word is scaled down from 64 to WordBits bits, and int has the same      *)
(* width, so that a wrapped subtraction converts to a negative int as in   *)
(* the program.                                                            *)
(***************************************************************************)
EXTENDS Integers, Sequences, FiniteSets, TLC

\* ------------------------------------------------------------------ bounds
WordBits == 8
MaxFrom == 2
MaxTo == 3
MaxBatch == 2
MaxHeight == 3
MaxHist == 3

VARIABLES
    conf,               \* the arguments main hands to the crawl function
    redisStr,           \* Redis string keys: key -> decimal string
    redisHash,          \* Redis hash keys: key -> (field -> value)
    height,             \* the ledger's current height
    pc,                 \* where the crawler process is
    lastRecordedBlock,
    firstRun,
    thisFromBlock,
    thisToBlock,
    currentBlock,
    task,               \* fetch goroutines of the window: block number -> state
    blockChan,          \* the buffered channel of fetched blocks (FIFO)
    data,               \* dataByBlock (txs) or dataByAddr (logs) of the window
    saveq,              \* HSet calls of the running Save* not yet issued
    saveErr,            \* an HSet of the running Save* failed
    retErr,             \* what the crawl function returned
    reply,              \* history: what GetLastRecordedBlock saw at startup
    windows,            \* history: the first MaxHist windows of this run
    failedFetch,        \* history: blocks of this window whose fetch failed
    savedBefore,        \* history: the hash keys as this window found them
    peer,               \* another crawler instance on the same Redis store
    faulted             \* history: an injected error or a kill has happened

vars == <<conf, redisStr, redisHash, height, pc, lastRecordedBlock, firstRun,
          thisFromBlock, thisToBlock, currentBlock, task, blockChan, data,
          saveq, saveErr, retErr, reply, windows, failedFetch, savedBefore,
          peer, faulted>>

store == <<redisStr, redisHash>>
locals == <<lastRecordedBlock, firstRun, thisFromBlock, thisToBlock,
            currentBlock, task, blockChan, data, saveq, saveErr>>

\* ------------------------------------------------------- machine integers
UintMod == 2 ^ WordBits

\* uint64 arithmetic wraps
U(x) == x % UintMod

\* int(x) of a uint64 x: same width, two's complement
ToInt(x) == IF x >= UintMod \div 2 THEN x - UintMod ELSE x

\* strconv.FormatUint(n, 10): the decimal digits, most significant first
RECURSIVE FormatUint(_)
FormatUint(n) == IF n < 10 THEN <<n>> ELSE Append(FormatUint(n \div 10), n % 10)

\* strconv.ParseUint(s, 10, 64) of a string of decimal digits
RECURSIVE ParseUint(_)
ParseUint(s) ==
    IF Len(s) = 0 THEN 0
    ELSE ParseUint(SubSeq(s, 1, Len(s) - 1)) * 10 + s[Len(s)]

\* ---------------------------------------------------------------- ledger
\* strings.ToLower on the hex strings the ledger hands out
ToLower(s) ==
    CASE s = "0xAA" -> "0xaa"
      [] s = "0xBb" -> "0xbb"
      [] s = "0xCC" -> "0xcc"
      [] OTHER -> s

\* The chain is fixed (finality is assumed): block n holds n % 3 transactions.
Transactions(n) == [i \in 1..(n % 3) |-> [hash |-> 10 * n + i, input |-> i]]

\* The log events block n emits, in chain order.
LogsOf(n) ==
    CASE n % 3 = 1 -> <<[Address |-> "0xAA", TxHash |-> 10 * n + 1, BlockNumber |-> n, Data |-> 1]>>
      [] n % 3 = 2 -> <<[Address |-> "0xBb", TxHash |-> 10 * n + 1, BlockNumber |-> n, Data |-> 1],
                        [Address |-> "0xAA", TxHash |-> 10 * n + 2, BlockNumber |-> n, Data |-> 2],
                        [Address |-> "0xCC", TxHash |-> 10 * n + 2, BlockNumber |-> n, Data |-> 3]>>
      [] OTHER -> <<>>

\* the contracts the configuration lists
Addresses == {"0xAA", "0xBb"}

RECURSIVE SelectLogs(_, _)
SelectLogs(logs, addrs) ==
    IF logs = <<>> THEN <<>>
    ELSE IF Head(logs).Address \in addrs
         THEN <<Head(logs)>> \o SelectLogs(Tail(logs), addrs)
         ELSE SelectLogs(Tail(logs), addrs)

\* client.FilterLogs: the matching events of blocks from..to, in chain order;
\* an inverted range matches nothing.
RECURSIVE FilterLogs(_, _, _)
FilterLogs(from, to, addrs) ==
    IF from > to THEN <<>>
    ELSE SelectLogs(LogsOf(from), addrs) \o FilterLogs(from + 1, to, addrs)

\* ----------------------------------------------------------------- rdb.go
\* A string is the sequence of its characters; a literal that every key
\* shares in the same place is written as one element.
keyPrefix == <<"ethtxcrawler">>

\* New: the prefix alone for the empty label, else prefix@label
ServiceLabel(label) == IF label = <<>> THEN keyPrefix ELSE keyPrefix \o <<"@">> \o label

txDataKey == keyPrefix \o <<":", "t", "x", "s">>

logDataKey(label, addr) == ServiceLabel(label) \o <<":", "l", "o", "g", "s", ":", addr>>

\* mutant: the checkpoint key carries neither label nor mode
lastRecordedBlockKeyUnscoped(label, mode) == keyPrefix \o <<":", "lastRecordedBlock">>

lastRecordedBlockKey(label, mode) ==
    ServiceLabel(label) \o <<":">> \o mode \o <<":", "lastRecordedBlock">>

\* json.Marshal of a []entity.EthData
Marshal(datas) == [i \in 1..Len(datas) |-> <<"Hash", datas[i].Hash, "Data", datas[i].Data>>]

\* mutant: the value is appended to what the field holds
HSetAppend(h, key, field, value) ==
    LET old == IF key \in DOMAIN h THEN h[key] ELSE << >>
        new == [f \in DOMAIN old \cup {field} |->
                   IF f = field
                   THEN (IF field \in DOMAIN old THEN old[field] ELSE <<>>) \o value
                   ELSE old[f]]
    IN  [k \in DOMAIN h \cup {key} |-> IF k = key THEN new ELSE h[k]]

\* db.HSet(key, field, value) on the hash keys
HSet(h, key, field, value) ==
    LET old == IF key \in DOMAIN h THEN h[key] ELSE << >>
        new == [f \in DOMAIN old \cup {field} |-> IF f = field THEN value ELSE old[f]]
    IN  [k \in DOMAIN h \cup {key} |-> IF k = key THEN new ELSE h[k]]

\* db.Set(key, value) on the string keys
Set(s, key, value) == [k \in DOMAIN s \cup {key} |-> IF k = key THEN value ELSE s[k]]

\* GetLastRecordedBlock's result when Redis answers: 0 on redis.Nil, else the parsed value
GetLastRecordedBlockValue(s, key) == IF key \in DOMAIN s THEN ParseUint(s[key]) ELSE 0

\* The HSet calls SaveTxs makes for a dataByBlockNumber: one goroutine per block
SaveTxsCalls(dataByBlock) ==
    {<<txDataKey, FormatUint(n), Marshal(dataByBlock[n])>> : n \in DOMAIN dataByBlock}

\* The HSet calls SaveLogTxs makes for a dataByAddr: per address, one per block
SaveLogTxsCalls(label, dataByAddr) ==
    UNION {{<<logDataKey(label, a), FormatUint(n), Marshal(dataByAddr[a][n])>> :
                n \in DOMAIN dataByAddr[a]} : a \in DOMAIN dataByAddr}

\* ---------------------------------------------------------------- main.go
\* First run: a zero result of GetLastRecordedBlock
IsFirstRun(last) == last = 0

\* mutant: a run that finds a checkpoint takes the block after it as done too
ResumeBlockSkip(last, fromBlock) == IF IsFirstRun(last) THEN fromBlock ELSE U(last + 1)

ResumeBlock(last, fromBlock) == IF IsFirstRun(last) THEN fromBlock ELSE last

\* the loop condition
\* mutant: the loop runs once more when the checkpoint is at toBlock
LoopCondInclusive(rolling, last, toBlock) == rolling \/ last <= toBlock

LoopCond(rolling, last, toBlock) == rolling \/ last < toBlock

\* mutant: the lower bound is incremented on a first run too
ThisFromBlockAlwaysNext(fr, last) == U(last + 1)

ThisFromBlock(fr, last) == IF fr THEN last ELSE U(last + 1)

\* mutant: the window is not chopped to the ledger's height
ChopToCurrentNever(t, cur) == t

\* Chop to most current block
ChopToCurrent(t, cur) == IF t > cur THEN cur ELSE t

ChopToBlock(t, rolling, toBlock) == IF ~rolling /\ t > toBlock THEN toBlock ELSE t

ThisToBlock(from, batchSize, cur, rolling, toBlock) ==
    ChopToBlock(ChopToCurrent(U(from + batchSize), cur), rolling, toBlock)

\* mutant: the count leaves out the window's last block
NumberOfBlocksShort(from, to) == ToInt(U(to - from))

NumberOfBlocks(from, to) == ToInt(U(to - from + 1))

\* the transaction extractor: one EthData per transaction, in block order
TxDatas(n) ==
    LET txs == Transactions(n)
    IN  [i \in 1..Len(txs) |-> [Hash |-> txs[i].hash, Data |-> txs[i].input]]

RECURSIVE CollectBlocks(_)
CollectBlocks(ch) ==
    IF ch = <<>> THEN << >>
    ELSE LET rest == CollectBlocks(Tail(ch))
             n == Head(ch)
         IN  [b \in DOMAIN rest \cup {n} |-> IF b \in DOMAIN rest THEN rest[b] ELSE TxDatas(n)]

\* the log extractor: EthData appended per (lowercase address, block number)
RECURSIVE GroupLogs(_, _)
GroupLogs(acc, logs) ==
    IF logs = <<>> THEN acc
    ELSE LET log == Head(logs)
             addr == ToLower(log.Address)
             contractData == IF addr \in DOMAIN acc THEN acc[addr] ELSE << >>
             blockDatas == IF log.BlockNumber \in DOMAIN contractData
                           THEN contractData[log.BlockNumber] ELSE <<>>
             appended == Append(blockDatas, [Hash |-> log.TxHash, Data |-> log.Data])
             newContract == [b \in DOMAIN contractData \cup {log.BlockNumber} |->
                               IF b = log.BlockNumber THEN appended ELSE contractData[b]]
         IN  GroupLogs([a \in DOMAIN acc \cup {addr} |->
                           IF a = addr THEN newContract ELSE acc[a]], Tail(logs))

\* ------------------------------------------------------------------- Init
Modes == {"txs", "log-txs"}

\* Mode.String()
ModeString(mode) ==
    IF mode = "txs" THEN <<"t", "x", "s">> ELSE <<"l", "o", "g", "-", "t", "x", "s">>

Configs ==
    [mode : Modes, label : {<<>>}, fromBlock : 0..MaxFrom, toBlock : 1..MaxTo,
     batchSize : 1..MaxBatch, rolling : BOOLEAN]

NoReply == [present |-> FALSE, value |-> 0]

FreshProcess ==
    /\ pc = "init"
    /\ lastRecordedBlock = 0
    /\ firstRun = FALSE
    /\ thisFromBlock = 0
    /\ thisToBlock = 0
    /\ currentBlock = 0
    /\ task = << >>
    /\ blockChan = <<>>
    /\ data = << >>
    /\ saveq = {}
    /\ saveErr = FALSE
    /\ retErr = "none"
    /\ reply = NoReply
    /\ windows = <<>>
    /\ failedFetch = {}
    /\ savedBefore = << >>

\* no second instance
NoPeer == [label |-> <<>>, mode |-> "none", wrote |-> -1, read |-> -1]

Init ==
    /\ conf \in Configs
    /\ redisStr = << >>
    /\ redisHash = << >>
    /\ height \in 0..MaxHeight
    /\ FreshProcess
    /\ peer = NoPeer
    /\ faulted = FALSE

ckptKey == lastRecordedBlockKey(conf.label, ModeString(conf.mode))

\* ---------------------------------------------------------------- actions
Return(err) ==
    /\ pc' = IF err = "nil" THEN "done" ELSE "error"
    /\ retErr' = err

GetLastRecordedBlock ==
    /\ pc = "init"
    /\ LET last == GetLastRecordedBlockValue(redisStr, ckptKey)
       IN  /\ firstRun' = IsFirstRun(last)
           /\ lastRecordedBlock' = ResumeBlock(last, conf.fromBlock)
           /\ reply' = [present |-> ckptKey \in DOMAIN redisStr, value |-> last]
    /\ pc' = "loop"
    /\ UNCHANGED <<conf, peer, store, height, thisFromBlock, thisToBlock, currentBlock,
                   task, blockChan, data, saveq, saveErr, retErr, windows,
                   failedFetch, savedBefore, faulted>>

GetLastRecordedBlockErr ==
    /\ pc = "init"
    /\ Return("redis error")
    /\ faulted' = TRUE
    /\ UNCHANGED <<conf, peer, store, height, locals, reply, savedBefore, windows, failedFetch>>

LoopExit ==
    /\ pc = "loop"
    /\ ~LoopCond(conf.rolling, lastRecordedBlock, conf.toBlock)
    /\ Return("nil")
    /\ UNCHANGED <<conf, peer, store, height, locals, reply, savedBefore, windows, failedFetch, faulted>>

BlockNumberErr ==
    /\ pc = "loop"
    /\ LoopCond(conf.rolling, lastRecordedBlock, conf.toBlock)
    /\ Return("failed to get current block number")
    /\ faulted' = TRUE
    /\ UNCHANGED <<conf, peer, store, height, locals, reply, savedBefore, windows, failedFetch>>

\* the window of the iteration: lines 126-147 and 241-262
Window ==
    /\ thisFromBlock' = ThisFromBlock(firstRun, lastRecordedBlock)
    /\ currentBlock' = height
    /\ thisToBlock' = ThisToBlock(thisFromBlock', conf.batchSize, height,
                                  conf.rolling, conf.toBlock)
    /\ windows' = IF Len(windows) < MaxHist
                  THEN Append(windows, <<thisFromBlock', thisToBlock'>>)
                  ELSE windows

\* getAndSaveTxs, from the loop head to wg.Wait
NextWindowTxs ==
    /\ pc = "loop"
    /\ conf.mode = "txs"
    /\ LoopCond(conf.rolling, lastRecordedBlock, conf.toBlock)
    /\ Window
    /\ IF NumberOfBlocks(thisFromBlock', thisToBlock') < 0
       THEN /\ pc' = "panic"
            /\ task' = << >>
       ELSE /\ pc' = "wait"
            /\ task' = [n \in thisFromBlock'..thisToBlock' |-> "run"]
    /\ blockChan' = <<>>
    /\ data' = << >>
    /\ saveq' = {}
    /\ saveErr' = FALSE
    /\ failedFetch' = {}
    /\ savedBefore' = redisHash
    /\ UNCHANGED <<conf, peer, store, height, lastRecordedBlock, firstRun, retErr,
                   reply, faulted>>

FetchOk(n) ==
    /\ pc = "wait"
    /\ n \in DOMAIN task
    /\ task[n] = "run"
    /\ blockChan' = Append(blockChan, n)
    /\ task' = [task EXCEPT ![n] = "done"]
    /\ UNCHANGED <<conf, peer, store, height, pc, lastRecordedBlock, firstRun,
                   thisFromBlock, thisToBlock, currentBlock, data, saveq,
                   saveErr, retErr, reply, savedBefore, windows, failedFetch, faulted>>

\* mutant: a failed fetch is not reported; the goroutine sends what it got and ends
FetchFailUnreported(n) ==
    /\ pc = "wait"
    /\ n \in DOMAIN task
    /\ task[n] = "run"
    /\ blockChan' = Append(blockChan, n)
    /\ task' = [task EXCEPT ![n] = "done"]
    /\ failedFetch' = failedFetch \cup {n}
    /\ faulted' = TRUE
    /\ UNCHANGED <<conf, peer, store, height, pc, lastRecordedBlock, firstRun,
                   thisFromBlock, thisToBlock, currentBlock, data,
                   saveq, saveErr, retErr, reply, savedBefore, windows>>

FetchFail(n) ==
    /\ pc = "wait"
    /\ n \in DOMAIN task
    /\ task[n] = "run"
    /\ task' = [task EXCEPT ![n] = "errChan"]
    /\ failedFetch' = failedFetch \cup {n}
    /\ faulted' = TRUE
    /\ UNCHANGED <<conf, peer, store, height, pc, lastRecordedBlock, firstRun,
                   thisFromBlock, thisToBlock, currentBlock, blockChan, data,
                   saveq, saveErr, retErr, reply, savedBefore, windows>>

\* mutant: wg.Wait does not wait
WaitGroupNoWait(t) == TRUE

\* wg.Wait returns once every goroutine has called wg.Done
WaitGroupDone(t) == \A n \in DOMAIN t : t[n] = "done"

\* wg.Wait, the collecting loop and the start of SaveTxs
Collect ==
    /\ pc = "wait"
    /\ WaitGroupDone(task)
    /\ IF \E n \in DOMAIN task : task[n] = "errChan"
       THEN /\ Return("got error from errChan")
            /\ UNCHANGED <<blockChan, data, saveq>>
       ELSE /\ data' = CollectBlocks(blockChan)
            /\ blockChan' = <<>>
            /\ saveq' = SaveTxsCalls(data')
            /\ pc' = "save"
            /\ UNCHANGED retErr
    /\ UNCHANGED <<conf, peer, store, height, lastRecordedBlock, firstRun,
                   thisFromBlock, thisToBlock, currentBlock, task, saveErr,
                   reply, savedBefore, windows, failedFetch, faulted>>

\* getAndSaveLogsTxs, from the loop head to the FilterLogs call
NextWindowLogs ==
    /\ pc = "loop"
    /\ conf.mode = "log-txs"
    /\ LoopCond(conf.rolling, lastRecordedBlock, conf.toBlock)
    /\ Window
    /\ pc' = "filter"
    /\ data' = << >>
    /\ saveq' = {}
    /\ saveErr' = FALSE
    /\ savedBefore' = redisHash
    /\ UNCHANGED <<conf, peer, store, height, lastRecordedBlock, firstRun, task,
                   blockChan, retErr, reply, failedFetch, faulted>>

\* mutant: a window without events is skipped, its checkpoint with it
FilterLogsOkSkipEmpty ==
    /\ pc = "filter"
    /\ data' = GroupLogs(<< >>, FilterLogs(thisFromBlock, thisToBlock, Addresses))
    /\ saveq' = SaveLogTxsCalls(conf.label, data')
    /\ pc' = IF data' = << >> THEN "loop" ELSE "save"
    /\ UNCHANGED <<conf, peer, store, height, lastRecordedBlock, firstRun,
                   thisFromBlock, thisToBlock, currentBlock, task, blockChan,
                   saveErr, retErr, reply, savedBefore, windows, failedFetch, faulted>>

FilterLogsOk ==
    /\ pc = "filter"
    /\ data' = GroupLogs(<< >>, FilterLogs(thisFromBlock, thisToBlock, Addresses))
    /\ saveq' = SaveLogTxsCalls(conf.label, data')
    /\ pc' = "save"
    /\ UNCHANGED <<conf, peer, store, height, lastRecordedBlock, firstRun,
                   thisFromBlock, thisToBlock, currentBlock, task, blockChan,
                   saveErr, retErr, reply, savedBefore, windows, failedFetch, faulted>>

FilterLogsErr ==
    /\ pc = "filter"
    /\ Return("failed to filter logs")
    /\ faulted' = TRUE
    /\ UNCHANGED <<conf, peer, store, height, locals, reply, savedBefore, windows, failedFetch>>

HSetOk(c) ==
    /\ pc = "save"
    /\ c \in saveq
    /\ redisHash' = HSet(redisHash, c[1], c[2], c[3])
    /\ saveq' = saveq \ {c}
    /\ UNCHANGED <<conf, peer, redisStr, height, pc, lastRecordedBlock, firstRun,
                   thisFromBlock, thisToBlock, currentBlock, task, blockChan,
                   data, saveErr, retErr, reply, savedBefore, windows, failedFetch, faulted>>

HSetFail(c) ==
    /\ pc = "save"
    /\ c \in saveq
    /\ saveq' = saveq \ {c}
    /\ saveErr' = TRUE
    /\ faulted' = TRUE
    /\ UNCHANGED <<conf, peer, store, height, pc, lastRecordedBlock, firstRun,
                   thisFromBlock, thisToBlock, currentBlock, task, blockChan,
                   data, retErr, reply, savedBefore, windows, failedFetch>>

\* mutant: the error of the record write is dropped
SaveReturnIgnoringError ==
    /\ pc = "save"
    /\ saveq = {}
    /\ pc' = "setckpt"
    /\ UNCHANGED <<conf, peer, store, height, locals, retErr, reply, savedBefore, windows, failedFetch, faulted>>

\* mutant: a failed record write is tried again
SaveReturnRetry ==
    /\ pc = "save"
    /\ saveq = {}
    /\ IF saveErr
       THEN /\ saveq' = (IF conf.mode = "txs" THEN SaveTxsCalls(data)
                         ELSE SaveLogTxsCalls(conf.label, data))
            /\ saveErr' = FALSE
            /\ pc' = "save"
       ELSE /\ pc' = "setckpt"
            /\ UNCHANGED <<saveq, saveErr>>
    /\ UNCHANGED <<conf, peer, store, height, lastRecordedBlock, firstRun,
                   thisFromBlock, thisToBlock, currentBlock, task, blockChan, data,
                   retErr, reply, savedBefore, windows, failedFetch, faulted>>

\* concurrent.WaitAndCollectErrors returns, and the caller checks its error
SaveReturn ==
    /\ pc = "save"
    /\ saveq = {}
    /\ IF saveErr
       THEN Return("failed to save")
       ELSE /\ pc' = "setckpt"
            /\ UNCHANGED retErr
    /\ UNCHANGED <<conf, peer, store, height, locals, reply, savedBefore, windows, failedFetch, faulted>>

\* mutant: the window's lower bound is written as checkpoint
SetLastRecordedBlockLowerBound ==
    /\ pc = "setckpt"
    /\ redisStr' = Set(redisStr, ckptKey, FormatUint(thisFromBlock))
    /\ lastRecordedBlock' = thisToBlock
    /\ pc' = "loop"
    /\ UNCHANGED <<conf, peer, redisHash, height, firstRun, thisFromBlock, thisToBlock,
                   currentBlock, task, blockChan, data, saveq, saveErr, retErr,
                   reply, savedBefore, windows, failedFetch, faulted>>

SetLastRecordedBlock ==
    /\ pc = "setckpt"
    /\ redisStr' = Set(redisStr, ckptKey, FormatUint(thisToBlock))
    /\ lastRecordedBlock' = thisToBlock
    /\ pc' = "loop"
    /\ UNCHANGED <<conf, peer, redisHash, height, firstRun, thisFromBlock, thisToBlock,
                   currentBlock, task, blockChan, data, saveq, saveErr, retErr,
                   reply, savedBefore, windows, failedFetch, faulted>>

SetLastRecordedBlockErr ==
    /\ pc = "setckpt"
    /\ Return("failed to save lastRecordedBlock")
    /\ faulted' = TRUE
    /\ UNCHANGED <<conf, peer, store, height, locals, reply, savedBefore, windows, failedFetch>>

\* ------------------------------------------------------------ environment
Terminal == {"done", "error", "panic", "killed"}

\* the chain grows
LedgerAdvance ==
    /\ height < MaxHeight
    /\ height' = height + 1
    /\ UNCHANGED <<conf, peer, store, pc, locals, retErr, reply, savedBefore, windows, failedFetch, faulted>>

\* the memory of a process that is gone
ProcessGone ==
    /\ lastRecordedBlock' = 0
    /\ firstRun' = FALSE
    /\ thisFromBlock' = 0
    /\ thisToBlock' = 0
    /\ currentBlock' = 0
    /\ task' = << >>
    /\ blockChan' = <<>>
    /\ data' = << >>
    /\ saveq' = {}
    /\ saveErr' = FALSE
    /\ retErr' = "none"
    /\ reply' = NoReply
    /\ windows' = <<>>
    /\ failedFetch' = {}
    /\ savedBefore' = << >>

\* the process is stopped from outside; its memory and goroutines are gone
Kill ==
    /\ pc \notin Terminal
    /\ pc' = "killed"
    /\ ProcessGone
    /\ faulted' = TRUE
    /\ UNCHANGED <<conf, peer, store, height>>

\* main is started again with the same configuration
Restart ==
    /\ pc \in Terminal
    /\ pc' = "init"
    /\ ProcessGone
    /\ UNCHANGED <<conf, peer, store, height, faulted>>

Step ==
    \/ GetLastRecordedBlock
    \/ GetLastRecordedBlockErr
    \/ LoopExit
    \/ BlockNumberErr
    \/ NextWindowTxs
    \/ \E n \in DOMAIN task : FetchOk(n)
    \/ \E n \in DOMAIN task : FetchFail(n)
    \/ Collect
    \/ NextWindowLogs
    \/ FilterLogsOk
    \/ FilterLogsErr
    \/ \E c \in saveq : HSetOk(c)
    \/ \E c \in saveq : HSetFail(c)
    \/ SaveReturn
    \/ SetLastRecordedBlock
    \/ SetLastRecordedBlockErr

Next == Step \/ LedgerAdvance \/ Kill \/ Restart

Spec == Init /\ [][Next]_vars

\* The Go scheduler runs every runnable goroutine, and the chain keeps growing.
FairSpec == Spec /\ WF_vars(Step) /\ WF_vars(LedgerAdvance)

\* ------------------------------------------------- the run of the README
\* A first run in transaction mode over blocks 100..150 in batches of 25,
\* against a ledger that is already past block 150.  The 26 fetch goroutines
\* of a window touch disjoint slots and commute, as do the HSet goroutines of
\* SaveTxs, so this specification runs them in ascending block order.
InitScenario ==
    /\ conf = [mode |-> "txs", label |-> <<>>, fromBlock |-> 100, toBlock |-> 150,
               batchSize |-> 25, rolling |-> FALSE]
    /\ redisStr = << >>
    /\ redisHash = << >>
    /\ height \in {150, 151, 200}
    /\ FreshProcess
    /\ peer = NoPeer
    /\ faulted = FALSE

FirstRunning == CHOOSE n \in DOMAIN task : task[n] = "run" /\ \A m \in DOMAIN task : task[m] = "run" => n <= m

FirstCall == CHOOSE c \in saveq : \A d \in saveq : ParseUint(c[2]) <= ParseUint(d[2])

NextScenario ==
    \/ GetLastRecordedBlock
    \/ LoopExit
    \/ NextWindowTxs
    \/ (\E n \in DOMAIN task : task[n] = "run") /\ FetchOk(FirstRunning)
    \/ Collect
    \/ saveq # {} /\ HSetOk(FirstCall)
    \/ SaveReturn
    \/ SetLastRecordedBlock

SpecScenario == InitScenario /\ [][NextScenario]_vars

\* ------------------------------------------- two instances on one store
\* A second crawler instance, with another label or another mode, works on
\* the same Redis store.  Of the second instance only its checkpoint calls
\* are followed, in any order.  The ledger is past toBlock and stands still.
Labels == {<<>>, <<"a">>, <<"a", ":", "t", "x", "s">>}

InitShared ==
    /\ conf \in [mode : Modes, label : Labels, fromBlock : {0}, toBlock : {MaxTo},
                  batchSize : {MaxBatch}, rolling : {FALSE}]
    /\ redisStr = << >>
    /\ redisHash = << >>
    /\ height = MaxHeight
    /\ FreshProcess
    /\ peer \in [label : Labels, mode : Modes, wrote : {-1}, read : {-1}]
    /\ <<peer.label, peer.mode>> # <<conf.label, conf.mode>>
    /\ faulted = FALSE

peerKey == lastRecordedBlockKey(peer.label, ModeString(peer.mode))

\* the second instance's SetLastRecordedBlock
PeerSetLastRecordedBlock(b) ==
    /\ redisStr' = Set(redisStr, peerKey, FormatUint(b))
    /\ peer' = [peer EXCEPT !.wrote = b]
    /\ UNCHANGED <<conf, redisHash, height, pc, locals, retErr, reply, savedBefore,
                   windows, failedFetch, faulted>>

\* the second instance's GetLastRecordedBlock
PeerGetLastRecordedBlock ==
    /\ peer' = [peer EXCEPT !.read = GetLastRecordedBlockValue(redisStr, peerKey)]
    /\ UNCHANGED <<conf, store, height, pc, locals, retErr, reply, savedBefore,
                   windows, failedFetch, faulted>>

NextShared ==
    \/ Step
    \/ Kill
    \/ Restart
    \/ \E b \in {0, MaxTo} : PeerSetLastRecordedBlock(b)
    \/ PeerGetLastRecordedBlock

SpecShared == InitShared /\ [][NextShared]_vars

\* ------------------------------------------- crashes on a standing ledger
\* A bounded run (rolling off) against a ledger that does not grow; the
\* process is killed or fails at any step and is started again.
InitCrash ==
    /\ conf \in {c \in Configs : ~c.rolling}
    /\ redisStr = << >>
    /\ redisHash = << >>
    /\ height \in 0..MaxHeight
    /\ FreshProcess
    /\ peer = NoPeer
    /\ faulted = FALSE

NextCrash == Step \/ Kill \/ Restart

SpecCrash == InitCrash /\ [][NextCrash]_vars

\* the HSet calls of one Save*, applied in some order (they touch distinct fields)
RECURSIVE ApplyCalls(_, _)
ApplyCalls(h, calls) ==
    IF calls = {} THEN h
    ELSE LET c == CHOOSE d \in calls : TRUE
         IN  ApplyCalls(HSet(h, c[1], c[2], c[3]), calls \ {c})

\* The store a first run leaves when nothing fails and nobody stops it: the
\* loop of getAndSaveTxs / getAndSaveLogsTxs run to its return, iteration by
\* iteration, from checkpoint variable last; <<"none">> when the run panics or
\* has not returned after fuel iterations.
RECURSIVE CrashFreeRun(_, _, _, _)
CrashFreeRun(str, hash, last, fuel) ==
    IF ~LoopCond(conf.rolling, last, conf.toBlock) THEN <<str, hash>>
    ELSE IF fuel = 0 THEN <<"none">>
    ELSE LET from == ThisFromBlock(TRUE, last)
             to == ThisToBlock(from, conf.batchSize, height, conf.rolling, conf.toBlock)
             calls == IF conf.mode = "txs"
                      THEN SaveTxsCalls([n \in from..to |-> TxDatas(n)])
                      ELSE SaveLogTxsCalls(conf.label,
                                           GroupLogs(<< >>, FilterLogs(from, to, Addresses)))
         IN  IF conf.mode = "txs" /\ NumberOfBlocks(from, to) < 0 THEN <<"none">>
             ELSE CrashFreeRun(Set(str, ckptKey, FormatUint(to)),
                               ApplyCalls(hash, calls), to, fuel - 1)

\* what the run that never crashed leaves in an empty store
CrashFreeStore == CrashFreeRun(<< >>, << >>, ResumeBlock(0, conf.fromBlock), MaxTo + 2)

\* ------------------------------------------------ a node that falls back
\* client.BlockNumber returns what the node it reaches reports: a node that
\* lags or has reorganised reports a height below one reported before.
LedgerFallBack ==
    /\ height > 0
    /\ \E h \in 0..(height - 1) : height' = h
    /\ UNCHANGED <<conf, peer, store, pc, locals, retErr, reply, savedBefore, windows,
                   failedFetch, faulted>>

\* a bounded run from block 1 to MaxTo in windows of one block
InitAnyHeight ==
    /\ conf \in [mode : Modes, label : {<<>>}, fromBlock : {1}, toBlock : {MaxTo},
                  batchSize : {1}, rolling : {FALSE}]
    /\ redisStr = << >>
    /\ redisHash = << >>
    /\ height \in 0..MaxHeight
    /\ FreshProcess
    /\ peer = NoPeer
    /\ faulted = FALSE

NextAnyHeight == Next \/ LedgerFallBack

SpecAnyHeight == InitAnyHeight /\ [][NextAnyHeight]_vars

\* ----------------------------------------------------------------- claims
\* the durable checkpoint, when the key exists
HasCheckpoint == ckptKey \in DOMAIN redisStr
Checkpoint == ParseUint(redisStr[ckptKey])

\* a window has been computed and the iteration is at or past its fetch
InWindow == pc \in {"wait", "filter", "save", "setckpt"}

\* C1: the first window of a run starts at c+1 for every stored checkpoint c
\* read at startup, and at the configured fromBlock when none is stored; no
\* block <= c is requested in that first window.
C1_ResumeAfterCheckpoint ==
    Len(windows) >= 1 =>
        IF reply.present
        THEN /\ windows[1][1] = reply.value + 1
             /\ Len(windows) = 1 => \A n \in DOMAIN task : n > reply.value
        ELSE windows[1][1] = conf.fromBlock

\* C2: in every iteration the window's upper bound, which is what is fetched
\* up to and what is written as checkpoint, is at most the height the ledger
\* returned in that iteration, and at most toBlock when rolling is false.
C2_WindowBound ==
    /\ InWindow =>
          /\ thisToBlock <= currentBlock
          /\ currentBlock <= height
          /\ ~conf.rolling => thisToBlock <= conf.toBlock
    /\ HasCheckpoint =>
          /\ Checkpoint <= height
          /\ ~conf.rolling => Checkpoint <= conf.toBlock

\* C2 witness: a window chopped to the ledger's height is about to be written
\* as checkpoint
C2_Witness ==
    /\ pc = "setckpt"
    /\ thisFromBlock + conf.batchSize > currentBlock
    /\ thisToBlock = currentBlock
    /\ thisFromBlock <= thisToBlock

\* C3: once a per-block fetch of a window has failed, the store's records and
\* the checkpoint stay as they were: neither SaveTxs nor SetLastRecordedBlock
\* runs for that window.
C3_FailedFetchPersistsNothing ==
    /\ [](failedFetch # {} => pc \notin {"save", "setckpt"})
    /\ [][failedFetch # {} => store' = store]_vars

\* C3 witness: one fetch of the window failed and every other one delivered
C3_Witness ==
    /\ pc = "wait"
    /\ failedFetch # {}
    /\ Len(blockChan) > 0
    /\ \A n \in DOMAIN task : task[n] # "run"

\* C4: whenever a per-block fetch of a window fails, getAndSaveTxs eventually
\* returns an error to its caller (unless the process is stopped from outside):
\* the controller does not hang on the join barrier or on the channels.
C4_FetchFailureReturnsError ==
    (failedFetch # {}) ~> (pc \in {"error", "killed"})

\* C5: with rolling false, a first resume position below toBlock, no fetch or
\* store error and a ledger that reaches toBlock, the loop eventually returns
\* nil, and the checkpoint is then exactly toBlock.
C5_BoundedRunTerminates ==
    (~conf.rolling /\ conf.fromBlock < conf.toBlock /\ conf.toBlock <= MaxHeight) =>
        <>(faulted \/ (pc = "done" /\ HasCheckpoint /\ Checkpoint = conf.toBlock))

\* C6: a first run with rolling=false, fromBlock=100, toBlock=150, batchSize=25
\* and ledger height >= 150 fetches exactly the windows [100,125] and
\* [126,150], in that order, and halts with checkpoint 150.
C6_TwoDisjointWindows ==
    /\ Len(windows) >= 1 => windows[1] = <<100, 125>>
    /\ Len(windows) >= 2 => windows[2] = <<126, 150>>
    /\ Len(windows) <= 2
    /\ pc = "done" => Len(windows) = 2 /\ HasCheckpoint /\ Checkpoint = 150

\* C7: in an iteration whose window is inverted after chopping (thisFromBlock >
\* thisToBlock), no ledger fetch is issued (no BlockByNumber goroutine, no
\* FilterLogs request) and the checkpoint is not advanced past the height.
C7_NoFetchOnDegenerateWindow ==
    (InWindow /\ thisFromBlock > thisToBlock) =>
        /\ pc # "filter"
        /\ task = << >>
        /\ HasCheckpoint => Checkpoint <= height

\* the HSet calls of the record write of the current window
SaveCalls ==
    IF conf.mode = "txs" THEN SaveTxsCalls(data) ELSE SaveLogTxsCalls(conf.label, data)

\* the store holds what the HSet call c writes
Saved(c) ==
    /\ c[1] \in DOMAIN redisHash
    /\ c[2] \in DOMAIN redisHash[c[1]]
    /\ redisHash[c[1]][c[2]] = c[3]

\* C8: the checkpoint is written only by SetLastRecordedBlock, and only after
\* the record write of the same window has returned without error, with all
\* its records stored; when the record write has failed the checkpoint keeps
\* its value and the loop returns the error.
C8_PersistBeforeAdvance ==
    [][/\ redisStr' # redisStr => (pc = "setckpt" /\ pc' = "loop")
       /\ (pc = "setckpt" /\ pc' = "loop") =>
             (~saveErr /\ saveq = {} /\ \A c \in SaveCalls : Saved(c))
       /\ (pc = "save" /\ saveErr) =>
             (redisStr' = redisStr /\ pc' \in {"save", "error", "killed"})]_vars

\* C8 witness: the records of a non-empty window are stored and the checkpoint
\* write is next
C8_Witness ==
    /\ pc = "setckpt"
    /\ SaveCalls # {}
    /\ \A c \in SaveCalls : Saved(c)
    /\ HasCheckpoint
    /\ Checkpoint < thisToBlock

\* the fields of a hash key
HashFields(key) == IF key \in DOMAIN redisHash THEN DOMAIN redisHash[key] ELSE {}

\* the block numbers that have records stored for the active mode
StoredBlocks ==
    IF conf.mode = "txs"
    THEN {ParseUint(f) : f \in HashFields(txDataKey)}
    ELSE UNION {{ParseUint(f) : f \in HashFields(logDataKey(conf.label, ToLower(a)))} :
                    a \in Addresses}

\* block b's complete record list is stored under the transaction data key
TxComplete(b) ==
    /\ FormatUint(b) \in HashFields(txDataKey)
    /\ redisHash[txDataKey][FormatUint(b)] = Marshal(TxDatas(b))

\* C9: in transaction mode, whenever a checkpoint c is stored, every block from
\* the first run's resume position (the configured fromBlock) up to c has its
\* complete record list stored.
C9_CompleteUpToCheckpoint ==
    (conf.mode = "txs" /\ HasCheckpoint) =>
        \A b \in conf.fromBlock..Checkpoint : TxComplete(b)

\* C9 witness: a checkpoint reached over several windows and a restart
C9_Witness ==
    /\ conf.mode = "txs"
    /\ reply.present
    /\ HasCheckpoint
    /\ Checkpoint > reply.value
    /\ reply.value > conf.fromBlock

\* C10 as stated: in every state, also between the record write and the
\* checkpoint write, no block above the durable checkpoint has records stored.
C10_NothingAboveCheckpoint ==
    HasCheckpoint => \A b \in StoredBlocks : b <= Checkpoint

\* C10 amended: right after every successful checkpoint write no block above
\* the durable checkpoint has records stored.
C10_NothingAboveWrittenCheckpoint ==
    [][(pc = "setckpt" /\ pc' = "loop") =>
          (HasCheckpoint /\ \A b \in StoredBlocks : b <= Checkpoint)']_vars

\* C10 witness: a checkpoint write has just succeeded after a window that was
\* interrupted between its record write and its checkpoint write
C10_Witness ==
    /\ pc = "loop"
    /\ Len(windows) >= 1
    /\ reply.present
    /\ Checkpoint = thisToBlock
    /\ Checkpoint > reply.value
    /\ StoredBlocks # {}

\* C11: a record write that failed for at least one key or block leaves no
\* record of its window stored: once an HSet of the running Save* has failed,
\* the hash keys hold exactly what they held when the window began.
C11_FailedSaveLeavesNothing ==
    (pc \in {"save", "error"} /\ saveErr) => redisHash = savedBefore

\* an iteration of the loop starts: the step from the loop head into a window
WindowStarts == pc = "loop" /\ pc' \in {"wait", "filter", "panic"}

\* C12: windows are strictly sequential.  When a window other than the run's
\* first starts (and with it its first ledger request), no fetch task of the
\* window before it is still running, every record of that window is stored
\* without error, and its upper bound is the durable checkpoint.
C12_SequentialWindows ==
    [][(WindowStarts /\ Len(windows) >= 1) =>
          /\ \A n \in DOMAIN task : task[n] = "done"
          /\ saveq = {} /\ ~saveErr
          /\ \A c \in SaveCalls : Saved(c)
          /\ HasCheckpoint /\ Checkpoint = thisToBlock
          /\ lastRecordedBlock = thisToBlock]_vars

\* a second window of the same run is in its fetch
C12_Witness == Len(windows) >= 2 /\ pc \in {"wait", "filter"} /\ windows[1] # windows[2]

\* the records of call c were in the hash keys when the window began
SavedBefore(c) ==
    /\ c[1] \in DOMAIN savedBefore
    /\ c[2] \in DOMAIN savedBefore[c[1]]
    /\ savedBefore[c[1]][c[2]] = c[3]

\* C13: the record write is idempotent.  An HSet of the running Save* that
\* writes records the store already holds for that key and block leaves the
\* store as it is, and an HSet that changes the store leaves exactly the
\* written records in that block's field (it overwrites, it does not append)
\* and touches no other field.
C13_IdempotentWrite ==
    [][(pc = "save" /\ pc' = "save" /\ saveq' # saveq) =>
          LET c == CHOOSE d \in saveq : d \notin saveq'
          IN  /\ Saved(c) => redisHash' = redisHash
              /\ redisHash' # redisHash =>
                    /\ DOMAIN redisHash' = DOMAIN redisHash \cup {c[1]}
                    /\ \A k \in DOMAIN redisHash' :
                          /\ DOMAIN redisHash'[k] =
                                (IF k \in DOMAIN redisHash THEN DOMAIN redisHash[k] ELSE {})
                                    \cup (IF k = c[1] THEN {c[2]} ELSE {})
                          /\ \A f \in DOMAIN redisHash'[k] :
                                redisHash'[k][f] =
                                    IF k = c[1] /\ f = c[2] THEN c[3] ELSE redisHash[k][f]]_vars

\* records the store held before the window have been written a second time
C13_Witness ==
    /\ pc = "save"
    /\ ~saveErr
    /\ \E c \in SaveCalls \ saveq : c[3] # <<>> /\ SavedBefore(c) /\ Saved(c)

\* the window of the iteration is not empty and the ledger has no event of the
\* configured contracts in it
EmptyLogWindow ==
    /\ conf.mode = "log-txs"
    /\ thisFromBlock <= thisToBlock
    /\ FilterLogs(thisFromBlock, thisToBlock, Addresses) = <<>>

\* C14: in log mode a non-empty window whose query returns no events writes
\* no record: the record write has no HSet to issue and cannot fail, no step
\* of the iteration changes the hash keys, and the iteration goes on from the
\* query to the record write to the checkpoint write, which stores the
\* window's upper bound.
C14_EmptyLogWindowAdvances ==
    [][(EmptyLogWindow /\ pc \in {"filter", "save", "setckpt"}) =>
          /\ redisHash' = redisHash
          /\ pc = "filter" => pc' \in {"filter", "save", "error", "killed"}
          /\ pc = "save" => saveq = {} /\ ~saveErr /\ pc' \in {"save", "setckpt", "killed"}
          /\ pc = "setckpt" =>
                /\ pc' \in {"setckpt", "loop", "error", "killed"}
                /\ pc' = "loop" =>
                      /\ ckptKey \in DOMAIN redisStr'
                      /\ ParseUint(redisStr'[ckptKey]) = thisToBlock
                      /\ lastRecordedBlock' = thisToBlock]_vars

\* a window without events has been checkpointed and nothing was written
C14_Witness ==
    /\ EmptyLogWindow
    /\ pc = "loop"
    /\ Len(windows) >= 1
    /\ redisHash = savedBefore
    /\ HasCheckpoint /\ Checkpoint = thisToBlock

\* C15: an absent checkpoint is told apart from a checkpoint of block 0: a
\* run that found a checkpoint stored at startup, 0 included, is not a first
\* run, and its first window starts right after the stored block (at block 1
\* for a stored 0).
C15_StoredZeroIsPresent ==
    (pc # "init" /\ reply.present) =>
        /\ ~firstRun
        /\ Len(windows) >= 1 => windows[1][1] = reply.value + 1

\* C16: with rolling set the loop never returns nil, whatever toBlock and the
\* checkpoint are: the crawl function is left only by returning an error (or
\* the process is stopped from outside), and no window's upper bound is capped
\* by toBlock: it is the lower bound plus batchSize, or the ledger's height
\* when that is less.
C16_RollingStopsOnlyByError ==
    conf.rolling =>
        /\ pc # "done" /\ retErr # "nil"
        /\ pc \in Terminal => pc = "killed" \/ (pc = "error" /\ retErr \notin {"nil", "none"})
        /\ InWindow =>
              thisToBlock = IF U(thisFromBlock + conf.batchSize) > currentBlock
                            THEN currentBlock
                            ELSE U(thisFromBlock + conf.batchSize)

\* C17: two instances on one store that differ in label or in mode keep
\* separate checkpoints under every interleaving: the second instance's key
\* holds what the second instance wrote last (nothing before its first
\* write) and its reads return that; the first instance's key changes only
\* in the first instance's own SetLastRecordedBlock, to the block it writes.
C17_CheckpointIsolation ==
    /\ [](/\ peerKey \in DOMAIN redisStr <=> peer.wrote # -1
          /\ peer.wrote # -1 => ParseUint(redisStr[peerKey]) = peer.wrote)
    /\ [][/\ peer'.read # peer.read =>
                peer'.read = (IF peer.wrote = -1 THEN 0 ELSE peer.wrote)
          /\ (\/ (ckptKey \in DOMAIN redisStr') # (ckptKey \in DOMAIN redisStr)
              \/ (HasCheckpoint /\ redisStr'[ckptKey] # redisStr[ckptKey])) =>
                /\ pc = "setckpt" /\ pc' = "loop"
                /\ peer' = peer
                /\ redisStr'[ckptKey] = FormatUint(thisToBlock)]_vars

\* both instances have written and read back checkpoints that differ
C17_Witness ==
    /\ HasCheckpoint
    /\ reply.present /\ reply.value = Checkpoint
    /\ peer.wrote # -1 /\ peer.read = peer.wrote
    /\ peer.wrote # Checkpoint
    /\ peer.label # conf.label

\* C18: no fetch task is left blocked: whenever a fetch goroutine of a window
\* has not finished, all goroutines of the window eventually reach wg.Done
\* (or the process is gone and its goroutines with it), whatever the number
\* of failing fetches.
C18_EveryFetchTaskFinishes ==
    (\E n \in DOMAIN task : task[n] # "done") ~> (\A n \in DOMAIN task : task[n] = "done")

\* the capacity blockChan was made with
Capacity == NumberOfBlocks(thisFromBlock, thisToBlock)

\* C19: join barrier and result buffer.  While the controller waits, one
\* fetch task per block of the window has been started and the buffer holds
\* no more than its capacity; a task that sends a block finds room in the
\* buffer, so it does not block on the send; and the controller leaves the
\* wait and consumes results only when every task of the window has finished.
C19_JoinBarrierAndBuffer ==
    /\ [](pc = "wait" =>
            /\ DOMAIN task = thisFromBlock..thisToBlock
            /\ Len(blockChan) <= Capacity)
    /\ [][/\ Len(blockChan') > Len(blockChan) => Len(blockChan) < Capacity
          /\ (pc = "wait" /\ pc' \notin {"wait", "killed"}) =>
                /\ \A n \in thisFromBlock..thisToBlock : n \in DOMAIN task /\ task[n] = "done"
                /\ Len(blockChan) = Cardinality(DOMAIN task)]_vars

\* every task of a window of two or more blocks has sent its block and the
\* buffer is full, not yet consumed
C19_Witness ==
    /\ pc = "wait"
    /\ Cardinality(DOMAIN task) >= 2
    /\ WaitGroupDone(task)
    /\ Len(blockChan) = Capacity

\* C20: every window handed to the fetcher, in either mode (a log query in
\* flight, or fetch goroutines spawned), has thisFromBlock <= thisToBlock and
\* spans at most batchSize: thisToBlock - thisFromBlock <= batchSize.
C20_WindowShape ==
    (pc = "filter" \/ (pc = "wait" /\ DOMAIN task # {})) =>
        /\ thisFromBlock <= thisToBlock
        /\ thisToBlock - thisFromBlock <= conf.batchSize

\* the blocks of the windows this run has computed
WindowBlocks == UNION {windows[i][1]..windows[i][2] : i \in 1..Len(windows)}

\* C21: crash recovery on an unchanged ledger.  When a run returns nil, after
\* any number of kills, failures and restarts at any point of any iteration,
\* the string and hash keys are those of the run that was never stopped; and
\* in a run that found a checkpoint at startup, every block with records
\* stored above that checkpoint lies in a window this run has fetched.
C21_CrashRecovery ==
    /\ pc = "done" => <<redisStr, redisHash>> = CrashFreeStore
    /\ (pc = "done" /\ reply.present /\ reply.value > 0) =>
          \A n \in StoredBlocks : n > reply.value => n \in WindowBlocks

\* a run returned nil whose one window rewrote records that an interrupted
\* window had left above the checkpoint
C21_Witness ==
    /\ pc = "done"
    /\ faulted
    /\ reply.present /\ reply.value > 0
    /\ Len(windows) = 1
    /\ \E c \in SaveCalls : /\ c[3] # <<>>
                             /\ SavedBefore(c)
                             /\ ParseUint(c[2]) > reply.value

\* the errors of the height query, the log query, the record write and the
\* checkpoint write, as the crawl function returns them
PropagatedErrors ==
    {"failed to get current block number", "failed to filter logs",
     "failed to save", "failed to save lastRecordedBlock"}

\* C22: an error of the height query, the log query, the record write or the
\* checkpoint write is returned in the iteration it occurs in, without retry:
\* a record write that has finished with an error is followed by the return
\* and by nothing else; the step that returns the error starts no window and
\* leaves the store (the checkpoint with it) as it is; and after the return
\* the process does nothing more, to the store or otherwise.
C22_ErrorReturnedWithoutRetry ==
    [][/\ (pc = "save" /\ saveq = {} /\ saveErr) =>
             \/ pc' = "error" /\ retErr' = "failed to save"
             \/ pc' = "killed"
             \/ UNCHANGED <<pc, locals, store>>
       /\ (pc # "error" /\ pc' = "error" /\ retErr' \in PropagatedErrors) =>
             /\ UNCHANGED <<store, windows, lastRecordedBlock>>
             /\ pc \in {"loop", "filter", "save", "setckpt"}
       /\ (pc = "error" /\ retErr \in PropagatedErrors) =>
             /\ UNCHANGED store
             /\ pc' = "error" => UNCHANGED <<locals, retErr, windows>>
             /\ pc' \in {"error", "init"}]_vars

\* the checkpoint write of a later window has failed and the error was
\* returned: the checkpoint is still the one of the window before
C22_Witness ==
    /\ pc = "error"
    /\ retErr = "failed to save lastRecordedBlock"
    /\ Len(windows) >= 2
    /\ HasCheckpoint /\ Checkpoint = windows[1][2] /\ Checkpoint < thisToBlock

\* C23: the durable checkpoint never decreases: every SetLastRecordedBlock,
\* in either mode and for every height the height query returns, writes a
\* value >= the checkpoint stored before it.
C23_CheckpointMonotone ==
    [][HasCheckpoint =>
          /\ ckptKey \in DOMAIN redisStr'
          /\ ParseUint(redisStr'[ckptKey]) >= Checkpoint]_vars

\* C24: in every iteration numberOfBlocks = int(thisToBlock - thisFromBlock + 1)
\* is >= 0, and in transaction mode it is the number of fetch goroutines
\* spawned, so that make(chan, numberOfBlocks) and wg.Add(numberOfBlocks) do
\* not panic.
C24_WorkCountNonNegative ==
    (InWindow \/ pc = "panic") =>
        /\ NumberOfBlocks(thisFromBlock, thisToBlock) >= 0
        /\ pc # "panic"
        /\ pc = "wait" => Cardinality(DOMAIN task) = NumberOfBlocks(thisFromBlock, thisToBlock)

\* the run found a checkpoint at or past toBlock at startup, rolling off
AlreadyDone == ~conf.rolling /\ reply.present /\ reply.value >= conf.toBlock

\* C25: with rolling off, a run whose checkpoint read at startup is >= toBlock
\* returns nil right after that read: it computes no window (no height query,
\* no fetch, no log query), writes no record and no checkpoint, and the store
\* stays as the read found it.
C25_NoOpWhenDone ==
    /\ [](AlreadyDone =>
            /\ pc \in {"loop", "done"}
            /\ pc = "done" => retErr = "nil"
            /\ windows = <<>> /\ task = << >> /\ saveq = {})
    /\ [][/\ pc = "init" /\ pc' = "loop" => UNCHANGED store
          /\ AlreadyDone =>
                /\ UNCHANGED store
                /\ pc' \in {pc, "done", "killed", "init"}]_vars

\* such a run has returned nil, with the checkpoint still the one it read
C25_Witness ==
    /\ AlreadyDone
    /\ pc = "done"
    /\ retErr = "nil"
    /\ HasCheckpoint /\ Checkpoint = reply.value
    /\ redisHash # << >>
====
